---- MODULE Spec2Model ----
(***************************************************************************)
(* Model of scripts/convert_markdown.js: the static-site build that turns  *)
(* the Markdown posts of _posts into _site/posts/<slug>.html and rewrites  *)
(* the listing regions of blog.html and index.html.                        *)
(*                                                                         *)
(* File contents, titles, dates and pages are strings, and every regular   *)
(* expression, String.prototype method and template literal of the script  *)
(* is an operator over strings that computes what the JavaScript computes. *)
(***************************************************************************)
EXTENDS Integers, Sequences, FiniteSets, TLC

(***************************************************************************)
(* String primitives                                                       *)
(***************************************************************************)

\* the smallest element of a non-empty set of positions
MinOf(S) == CHOOSE i \in S : \A j \in S : i <= j

\* the element of a one-element set.  the({F(v) : v \in {e}}) is F(e) with e
\* evaluated once, however often F uses its argument.
the(S) == CHOOSE r \in S : TRUE

\* s.charAt(i - 1): positions are 1-based here, 0-based in JavaScript
charAt(s, i) == SubSeq(s, i, i)

\* s.startsWith(pat, i - 1)
startsWith(s, pat, i) ==
    /\ i >= 1
    /\ i + Len(pat) - 1 <= Len(s)
    /\ SubSeq(s, i, i + Len(pat) - 1) = pat

\* s.indexOf(pat, from - 1) + 1: position of the first occurrence of pat at or
\* after position from, 0 when there is none
indexOf(s, pat, from) ==
    LET n     == Len(pat)
        range == from..(Len(s) - n + 1)
    IN  IF \E i \in range : SubSeq(s, i, i + n - 1) = pat
        THEN CHOOSE i \in range :
                 /\ SubSeq(s, i, i + n - 1) = pat
                 /\ \A j \in from..(i - 1) : SubSeq(s, j, j + n - 1) # pat
        ELSE 0

\* s.endsWith(pat)
endsWith(s, pat) ==
    /\ Len(pat) <= Len(s)
    /\ SubSeq(s, Len(s) - Len(pat) + 1, Len(s)) = pat

\* s.includes(pat)
includes(s, pat) == indexOf(s, pat, 1) # 0

\* a substring that takes the character at index n as well
substringInclusive(s, n) == IF Len(s) <= n + 1 THEN s ELSE SubSeq(s, 1, n + 1)

\* s.substring(0, n)
substring(s, n) == IF Len(s) <= n THEN s ELSE SubSeq(s, 1, n)

\* the part of s from position i to the end
from(s, i) == SubSeq(s, i, Len(s))

\* White space as String.prototype.trim and the regular expression class \s
\* see it, restricted to the characters a TLA+ string can spell.
isWhiteSpace(c) == c \in {" ", "\t", "\n", "\r", "\f"}

\* Line terminators: the characters the regular expression atom . refuses.
isLineTerminator(c) == c \in {"\n", "\r"}

\* s.trim()
trim(s) ==
    LET keep == {i \in 1..Len(s) : ~isWhiteSpace(charAt(s, i))}
    IN  IF keep = {} THEN ""
        ELSE SubSeq(s, MinOf(keep), CHOOSE i \in keep : \A j \in keep : j <= i)

\* s.replace(pat, ''): String.prototype.replace with a string pattern removes
\* the first occurrence only
replaceFirst(s, pat) ==
    LET i == indexOf(s, pat, 1)
    IN  IF i = 0 THEN s
        ELSE SubSeq(s, 1, i - 1) \o from(s, i + Len(pat))

\* s.split('\n'): the sequence of lines of s
RECURSIVE split(_)
split(s) ==
    LET i == indexOf(s, "\n", 1)
    IN  IF i = 0 THEN <<s>>
        ELSE <<SubSeq(s, 1, i - 1)>>
                 \o the({split(rest) : rest \in {from(s, i + 1)}})

\* a slice that stops one element early
sliceShort(q, n) == IF Len(q) <= n - 1 THEN q ELSE SubSeq(q, 1, n - 1)

\* lines.slice(0, n)
slice(q, n) == IF Len(q) <= n THEN q ELSE SubSeq(q, 1, n)

\* lines.join(sep)
RECURSIVE join(_, _)
join(q, sep) ==
    IF Len(q) = 0 THEN ""
    ELSE IF Len(q) = 1 THEN q[1]
    ELSE q[1] \o sep \o join(Tail(q), sep)

(***************************************************************************)
(* Date parsing: new Date(string)                                          *)
(***************************************************************************)

DigitValue ==
    [c \in {"0", "1", "2", "3", "4", "5", "6", "7", "8", "9"} |->
        CASE c = "0" -> 0 [] c = "1" -> 1 [] c = "2" -> 2 [] c = "3" -> 3
          [] c = "4" -> 4 [] c = "5" -> 5 [] c = "6" -> 6 [] c = "7" -> 7
          [] c = "8" -> 8 [] c = "9" -> 9]

isDigit(c) == c \in DOMAIN DigitValue

allDigits(s) == Len(s) > 0 /\ \A i \in 1..Len(s) : isDigit(charAt(s, i))

\* the number a string of decimal digits spells
RECURSIVE toNumber(_)
toNumber(s) ==
    IF Len(s) = 0 THEN 0
    ELSE 10 * toNumber(SubSeq(s, 1, Len(s) - 1))
         + DigitValue[charAt(s, Len(s))]

MonthNames ==
    <<"January", "February", "March", "April", "May", "June", "July",
      "August", "September", "October", "November", "December">>

\* Days from 1970-01-01 to the civil date y-m-d of the proleptic Gregorian
\* calendar; a day number past the end of the month runs into the next month,
\* as MakeDay does.  A time value is this count times 86400000 ms; the model
\* keeps the day count, which orders and equates dates the same way.
MakeDay(y, m, d) ==
    LET yy  == IF m <= 2 THEN y - 1 ELSE y
        era == yy \div 400
        yoe == yy - era * 400
        mp  == IF m > 2 THEN m - 3 ELSE m + 9
        doy == (153 * mp + 2) \div 5 + d - 1
        doe == yoe * 365 + yoe \div 4 - yoe \div 100 + doy
    IN  era * 146097 + doe - 719468

InvalidDate == [valid |-> FALSE, days |-> 0]

\* "2025-03-01": the ECMAScript date-only form, read as UTC
parseIsoDate(s) ==
    IF /\ Len(s) = 10
       /\ charAt(s, 5) = "-" /\ charAt(s, 8) = "-"
       /\ allDigits(SubSeq(s, 1, 4))
       /\ allDigits(SubSeq(s, 6, 7))
       /\ allDigits(SubSeq(s, 9, 10))
       /\ toNumber(SubSeq(s, 6, 7)) \in 1..12
       /\ toNumber(SubSeq(s, 9, 10)) \in 1..31
    THEN [valid |-> TRUE,
          days  |-> MakeDay(toNumber(SubSeq(s, 1, 4)),
                            toNumber(SubSeq(s, 6, 7)),
                            toNumber(SubSeq(s, 9, 10)))]
    ELSE InvalidDate

\* "March 23, 2025": the form the posts of the repository use, read by the
\* legacy parser as local midnight (the build runs in UTC)
parseLongDate(s) ==
    LET sp    == indexOf(s, " ", 1)
        comma == indexOf(s, ", ", 1)
        name  == SubSeq(s, 1, sp - 1)
        day   == SubSeq(s, sp + 1, comma - 1)
        year  == from(s, comma + 2)
        ms    == {m \in 1..12 : MonthNames[m] = name}
    IN  IF /\ sp > 1 /\ comma > sp + 1
           /\ ms # {}
           /\ allDigits(day) /\ Len(day) <= 2 /\ toNumber(day) \in 1..31
           /\ allDigits(year) /\ Len(year) = 4
        THEN [valid |-> TRUE,
              days  |-> MakeDay(toNumber(year), MinOf(ms), toNumber(day))]
        ELSE InvalidDate

\* new Date(s): a time value, or Invalid Date (whose number value is NaN).
\* The two forms above are the ones the model's inputs use; a string of
\* neither form (empty text, a word such as TBD) is an Invalid Date.
newDate(s) ==
    LET iso == parseIsoDate(s)
    IN  IF iso.valid THEN iso ELSE parseLongDate(s)

(***************************************************************************)
(* entries.sort((a, b) => new Date(b.date) - new Date(a.date))             *)
(***************************************************************************)

\* the comparator with its operands exchanged: oldest first
compareFnAscending(a, b) ==
    IF a.time.valid /\ b.time.valid THEN a.time.days - b.time.days ELSE 0

\* The comparator as Array.prototype.sort uses it: a NaN result (either date
\* invalid) counts as 0.  a and b are array elements paired with the value of
\* new Date(element.date), which is a function of the element alone.
compareFn(a, b) ==
    IF a.time.valid /\ b.time.valid THEN b.time.days - a.time.days ELSE 0

\* q with q[start] moved to position left, the elements between shifted up
insertAt(q, left, start) ==
    SubSeq(q, 1, left - 1) \o <<q[start]>> \o SubSeq(q, left, start - 1)
        \o SubSeq(q, start + 1, Len(q))

\* a binary search that goes left on a tie, which puts an element before the
\* elements equal to it
RECURSIVE binarySearchLeft(_, _, _, _)
binarySearchLeft(q, start, left, right) ==
    IF left >= right THEN left
    ELSE LET mid == left + ((right - left) \div 2)
         IN  IF compareFn(q[start], q[mid]) <= 0
             THEN binarySearchLeft(q, start, left, mid)
             ELSE binarySearchLeft(q, start, mid + 1, right)

\* the binary search of the insertion point of q[start] in q[1..start-1]
RECURSIVE binarySearch(_, _, _, _)
binarySearch(q, start, left, right) ==
    IF left >= right THEN left
    ELSE LET mid == left + ((right - left) \div 2)
         IN  IF compareFn(q[start], q[mid]) < 0
             THEN binarySearch(q, start, left, mid)
             ELSE binarySearch(q, start, mid + 1, right)

\* insert q[start], q[start+1], ... into the sorted prefix before them
RECURSIVE binaryInsertionSort(_, _)
binaryInsertionSort(q, start) ==
    IF start > Len(q) THEN q
    ELSE the({binaryInsertionSort(v, start + 1) :
                 v \in {insertAt(q, binarySearch(q, start, 1, start), start)}})

\* the length of the run that starts the array: strictly descending when
\* desc, non-descending otherwise
RECURSIVE runLength(_, _, _)
runLength(q, idx, desc) ==
    IF idx > Len(q) THEN idx - 1
    ELSE LET order == compareFn(q[idx], q[idx - 1])
         IN  IF (desc /\ order >= 0) \/ (~desc /\ order < 0) THEN idx - 1
             ELSE runLength(q, idx + 1, desc)

reverseRange(q, n) ==
    [i \in 1..Len(q) |-> IF i <= n THEN q[n + 1 - i] ELSE q[i]]

\* Array.prototype.sort of the runtime the build uses (Node 20, see
\* .github/workflows/publish.yaml): for the array lengths of the model the
\* whole sort is one run detection followed by a binary insertion sort.
\* With a consistent comparator this is the stable sort ECMAScript requires;
\* with an inconsistent one (an Invalid Date between valid ones) it is the
\* order this runtime produces.
sort(entries) ==
    IF Len(entries) < 2 THEN entries
    ELSE LET q      == [i \in 1..Len(entries) |->
                          [entry |-> entries[i], time |-> newDate(entries[i].date)]]
             desc   == compareFn(q[2], q[1]) < 0
             run    == runLength(q, 3, desc)
             made   == IF desc THEN reverseRange(q, run) ELSE q
         IN  the({[i \in 1..Len(entries) |-> sorted[i].entry] :
                     sorted \in {binaryInsertionSort(made, run + 1)}})

(***************************************************************************)
(* Regular expressions of the script                                       *)
(***************************************************************************)

NoMatch == [found |-> FALSE, index |-> 0, end |-> 0, group1 |-> "", group2 |-> ""]

\* content.match(/---\n([\s\S]*?)---\n([\s\S]*)/): the leftmost "---\n"
\* anywhere in the text opens, the nearest "---\n" after it closes (the first
\* group is lazy), the second group takes the rest.  index is the position of
\* the match, end the position after it.
frontMatterRegex(content) ==
    LET open  == indexOf(content, "---\n", 1)
        close == IF open = 0 THEN 0 ELSE indexOf(content, "---\n", open + 4)
    IN  IF close = 0 THEN NoMatch
        ELSE [found  |-> TRUE,
              index  |-> open,
              end    |-> Len(content) + 1,
              group1 |-> SubSeq(content, open + 4, close - 1),
              group2 |-> from(content, close + 4)]

\* the end of (.*) started at position p: . takes every character but a line
\* terminator, greedily
endOfLine(s, p) ==
    CHOOSE q \in p..(Len(s) + 1) :
        /\ q = Len(s) + 1 \/ isLineTerminator(charAt(s, q))
        /\ \A j \in p..(q - 1) : ~isLineTerminator(charAt(s, j))

\* frontMatter.match(/<key> (.*)/) for the keys "title:" and "date:": the
\* leftmost occurrence of the key text and one space, wherever it is in the
\* block, and the rest of that line
keyMatch(frontMatter, key) ==
    LET i == indexOf(frontMatter, key \o " ", 1)
        e == endOfLine(frontMatter, i + Len(key) + 1)
    IN  IF i = 0 THEN NoMatch
        ELSE [found  |-> TRUE,
              index  |-> i,
              end    |-> e,
              group1 |-> SubSeq(frontMatter, i + Len(key) + 1, e - 1),
              group2 |-> ""]

titleMatch(frontMatter) == keyMatch(frontMatter, "title:")

dateMatch(frontMatter) == keyMatch(frontMatter, "date:")

\* a pattern whose region may run to the end of the text when no closing tag
\* follows the opening tag
mainContentRegexOpenEnded(s) ==
    LET open  == indexOf(s, "<main>", 1)
        close == IF open = 0 THEN 0 ELSE indexOf(s, "</main>", open + 6)
        stop  == IF close = 0 THEN Len(s) + 1 ELSE close
    IN  IF open = 0 THEN NoMatch
        ELSE [found  |-> TRUE,
              index  |-> open,
              end    |-> IF close = 0 THEN Len(s) + 1 ELSE close + 7,
              group1 |-> SubSeq(s, open + 6, stop - 1),
              group2 |-> ""]

\* blogIndexContent.match(/<main>([\s\S]*?)<\/main>/)
mainContentRegex(s) ==
    LET open  == indexOf(s, "<main>", 1)
        close == IF open = 0 THEN 0 ELSE indexOf(s, "</main>", open + 6)
    IN  IF close = 0 THEN NoMatch
        ELSE [found  |-> TRUE,
              index  |-> open,
              end    |-> close + 7,
              group1 |-> SubSeq(s, open + 6, close - 1),
              group2 |-> ""]

\* the position after \s* started at position p
skipWhiteSpace(s, p) ==
    CHOOSE q \in p..(Len(s) + 1) :
        /\ q = Len(s) + 1 \/ ~isWhiteSpace(charAt(s, q))
        /\ \A j \in p..(q - 1) : isWhiteSpace(charAt(s, j))

LatestPostsHeading == "<h2>Latest Posts</h2>"

\* homePageContent.match(/<section>\s*<h2>Latest Posts<\/h2>([\s\S]*?)<\/section>/)
\* the leftmost position at or after p where <section>\s*<h2>Latest Posts</h2>
\* matches, 0 when there is none
RECURSIVE sectionHead(_, _)
sectionHead(s, p) ==
    LET i == indexOf(s, "<section>", p)
    IN  IF i = 0 THEN 0
        ELSE IF startsWith(s, LatestPostsHeading, skipWhiteSpace(s, i + 9))
             THEN i
        ELSE the({sectionHead(s, next) : next \in {i + 1}})

sectionContentRegex(s) ==
    LET open  == sectionHead(s, 1)
        body  == skipWhiteSpace(s, open + 9) + Len(LatestPostsHeading)
        close == IF open = 0 THEN 0 ELSE indexOf(s, "</section>", body)
    IN  IF close = 0 THEN NoMatch
        ELSE [found  |-> TRUE,
              index  |-> open,
              end    |-> close + 10,
              group1 |-> SubSeq(s, body, close - 1),
              group2 |-> ""]

\* the grave accent, which a string literal cannot hold on its own
BackQuote == SubSeq("`'", 1, 1)

\* GetSubstitution: the replacement text of String.prototype.replace for a
\* pattern with one capture group.  $$ is a dollar sign, $& the match, $ and a
\* grave accent the text before the match, $ and an apostrophe the text after
\* it, $1 and $01 the group; any other dollar sign stands for itself.
RECURSIVE GetSubstitution(_, _, _, _)
GetSubstitution(str, m, replacement, p) ==
    LET d    == indexOf(replacement, "$", p)
        two  == SubSeq(replacement, d, d + 1)
        tri  == SubSeq(replacement, d, d + 2)
        lit  == SubSeq(replacement, p, d - 1)
    IN  IF d = 0 THEN from(replacement, p)
        ELSE IF two = "$$"
             THEN lit \o "$" \o GetSubstitution(str, m, replacement, d + 2)
        ELSE IF two = "$&"
             THEN lit \o SubSeq(str, m.index, m.end - 1)
                      \o GetSubstitution(str, m, replacement, d + 2)
        ELSE IF two = "$" \o BackQuote
             THEN lit \o SubSeq(str, 1, m.index - 1)
                      \o GetSubstitution(str, m, replacement, d + 2)
        ELSE IF two = "$'"
             THEN lit \o from(str, m.end)
                      \o GetSubstitution(str, m, replacement, d + 2)
        ELSE IF tri = "$01"
             THEN lit \o m.group1
                      \o GetSubstitution(str, m, replacement, d + 3)
        ELSE IF two = "$1"
             THEN lit \o m.group1
                      \o GetSubstitution(str, m, replacement, d + 2)
        ELSE lit \o "$" \o GetSubstitution(str, m, replacement, d + 1)

\* replace that resumes one character too late after the match
replaceSkippingOne(str, m, replacement) ==
    IF ~m.found THEN str
    ELSE SubSeq(str, 1, m.index - 1)
             \o GetSubstitution(str, m, replacement, 1)
             \o from(str, m.end + 1)

\* str.replace(regex, replacement) for a regex without the g flag: the first
\* match is replaced, the text around it is kept; no match, no change
replace(str, m, replacement) ==
    IF ~m.found THEN str
    ELSE SubSeq(str, 1, m.index - 1)
             \o GetSubstitution(str, m, replacement, 1)
             \o from(str, m.end)

(***************************************************************************)
(* Templates                                                               *)
(***************************************************************************)

\* marked.parse(markdownContent): the external Markdown converter, a
\* deterministic function of its argument.  The bodies of the model are one
\* paragraph of text, which the converter wraps in a paragraph element.
markedParse(markdownContent) ==
    IF trim(markdownContent) = "" THEN ""
    ELSE "<p>" \o trim(markdownContent) \o "</p>\n"

PageHead ==
    "<!DOCTYPE html>\n<html lang=\"en\">\n<head>\n"
    \o "    <meta charset=\"UTF-8\">\n"
    \o "    <meta name=\"viewport\" content=\"width=device-width, initial-scale=1.0\">\n"
    \o "    <title>"

PageNav ==
    "</h1>\n        <nav>\n            <ul>\n"
    \o "                <li><a href=\"../index.html\">Home</a></li>\n"
    \o "                <li><a href=\"../about.html\">About</a></li>\n"
    \o "                <li><a href=\"../blog.html\">Blog Posts</a></li>\n"
    \o "            </ul>\n        </nav>\n    </header>\n"
    \o "    <main>\n        <article>\n            <p class=\"date\">"

PageFoot ==
    "\n        </article>\n    </main>\n    <footer>\n"
    \o "        <p>&copy; 2025 My Blog. All rights reserved.</p>\n"
    \o "    </footer>\n</body>\n</html>"

createHtmlFromMarkdown(title, date, content) ==
    PageHead \o title
        \o " - My Blog</title>\n    <link rel=\"stylesheet\" href=\"../css/style.css\">\n</head>\n<body>\n    <header>\n        <h1>"
        \o title \o PageNav \o date \o "</p>\n            " \o content \o PageFoot

\* the fragment updateBlogIndex appends to entriesHtml for one entry
blogEntryHtml(entry) ==
    "\n        <article id=\"" \o entry.slug \o "\">\n"
    \o "            <h2>" \o entry.title \o "</h2>\n"
    \o "            <p class=\"date\">" \o entry.date \o "</p>\n"
    \o "            <p>" \o entry.preview \o "</p>\n"
    \o "            <a href=\"posts/" \o entry.slug \o ".html\">Read more</a>\n"
    \o "        </article>\n    "

\* the fragment updateHomePage appends to entriesHtml for one entry
homeEntryHtml(entry) ==
    "\n            <article>\n"
    \o "                <h3>" \o entry.title \o "</h3>\n"
    \o "                <p>" \o entry.preview \o "</p>\n"
    \o "                <a href=\"posts/" \o entry.slug \o ".html\">Read more</a>\n"
    \o "            </article>\n    "

\* entries.forEach(entry => { entriesHtml += fragment }) of updateBlogIndex
RECURSIVE blogEntriesHtml(_)
blogEntriesHtml(entries) ==
    IF Len(entries) = 0 THEN ""
    ELSE blogEntryHtml(Head(entries)) \o blogEntriesHtml(Tail(entries))

\* recentEntries.forEach(entry => { entriesHtml += fragment }) of updateHomePage
RECURSIVE homeEntriesHtml(_)
homeEntriesHtml(entries) ==
    IF Len(entries) = 0 THEN ""
    ELSE homeEntryHtml(Head(entries)) \o homeEntriesHtml(Tail(entries))

\* the number of entries the home page shows
RecentCount == 3

\* the content updateBlogIndex writes to blog.html, given the sorted entries
blogIndexUpdated(blogIndexContent, sorted) ==
    the({replace(blogIndexContent, m, r) :
            m \in {mainContentRegex(blogIndexContent)},
            r \in {"<main>\n    " \o blogEntriesHtml(sorted) \o "\n    </main>"}})

\* updateHomePage with the entries taken oldest first
homePageUpdatedOldestFirst(homePageContent, sorted) ==
    the({replace(homePageContent, m, r) :
            m \in {sectionContentRegex(homePageContent)},
            r \in {"<section>\n            <h2>Latest Posts</h2>"
                      \o homeEntriesHtml(slice([i \in 1..Len(sorted) |->
                                                  sorted[Len(sorted) + 1 - i]],
                                               RecentCount))
                      \o "\n        </section>"}})

\* updateHomePage without entries.slice(0, 3)
homePageUpdatedUnsliced(homePageContent, sorted) ==
    the({replace(homePageContent, m, r) :
            m \in {sectionContentRegex(homePageContent)},
            r \in {"<section>\n            <h2>Latest Posts</h2>"
                      \o homeEntriesHtml(sorted)
                      \o "\n        </section>"}})

\* the content updateHomePage writes to index.html, given the sorted entries
homePageUpdated(homePageContent, sorted) ==
    the({replace(homePageContent, m, r) :
            m \in {sectionContentRegex(homePageContent)},
            r \in {"<section>\n            <h2>Latest Posts</h2>"
                      \o homeEntriesHtml(slice(sorted, RecentCount))
                      \o "\n        </section>"}})

(***************************************************************************)
(* One post file                                                           *)
(***************************************************************************)

\* the characters of the preview before the ellipsis
PreviewLength == 150

\* file.replace('.md', '')
slugOf(file) == replaceFirst(file, ".md")

\* a test that also wants a title and a date that are not empty
acceptedNonEmpty(content) ==
    /\ frontMatterRegex(content).found
    /\ titleMatch(frontMatterRegex(content).group1).found
    /\ dateMatch(frontMatterRegex(content).group1).found
    /\ trim(titleMatch(frontMatterRegex(content).group1).group1) # ""
    /\ trim(dateMatch(frontMatterRegex(content).group1).group1) # ""

\* the two nested if of the forEach body: the file yields a page and an entry
accepted(content) ==
    /\ frontMatterRegex(content).found
    /\ titleMatch(frontMatterRegex(content).group1).found
    /\ dateMatch(frontMatterRegex(content).group1).found

\* the object pushed to blogEntries for an accepted file
entryOf(file, content) ==
    LET match == frontMatterRegex(content)
    IN  [title   |-> trim(titleMatch(match.group1).group1),
         date    |-> trim(dateMatch(match.group1).group1),
         slug    |-> slugOf(file),
         preview |-> substring(join(slice(split(match.group2), 2), " "),
                               PreviewLength) \o "..."]

\* htmlOutput, the page written for an accepted file
htmlOutput(file, content) ==
    LET match == frontMatterRegex(content)
    IN  createHtmlFromMarkdown(trim(titleMatch(match.group1).group1),
                               trim(dateMatch(match.group1).group1),
                               markedParse(match.group2))

\* path.join(outputDir, slug + '.html'), relative to outputDir
outputName(file) == slugOf(file) \o ".html"

\* fs.appendFileSync in the place of fs.writeFileSync: an existing file grows
appendFileSync(dir, name, data) ==
    [n \in (DOMAIN dir) \cup {name} |->
        IF n # name THEN dir[n]
        ELSE IF name \in DOMAIN dir THEN dir[name] \o data ELSE data]

\* a write that clears the directory before it writes
writeFileSyncAlone(dir, name, data) == [n \in {name} |-> data]

\* a write that reports success and writes nothing
writeFileSyncDropped(dir, name, data) == dir

\* fs.writeFileSync(path.join(dir, name), data): the file is created or
\* overwritten, the other files of the directory are left alone
writeFileSync(dir, name, data) ==
    [n \in (DOMAIN dir) \cup {name} |-> IF n = name THEN data ELSE dir[n]]

(***************************************************************************)
(* Inputs of the model                                                     *)
(***************************************************************************)

\* build runs in one behaviour
MaxRuns == 2

\* entries handed to one direct call of updateBlogIndex or updateHomePage
MaxEntries == 5

\* names of the Markdown files the posts directory may hold
MdNames == {"first.md", "second.md"}

\* a file of the posts directory that is no Markdown file
OtherName == "notes.txt"

FirstPost == "---\ntitle: First\ndate: 2025-01-01\n---\nhello\nworld\nmore\n"

SecondPost == "---\ntitle: Second  \ndate: March 1, 2025\n---\nnews\n"

NoFrontMatterPost == "just some notes\n"

\* no line of the block begins with title:
SubtitlePost == "---\nsubtitle: Draft\ndate: 2025-02-01\n---\ntext\n"

NoDatePost == "---\ntitle: Undated\n---\ntext\n"

\* the title value holds the text of the date key
UpdatePost == "---\ntitle: Weekly update: March\ndate: 2025-02-01\n---\nx\n"

\* the first line of the body, hence the preview, holds a closing main tag
MainTagPost == "---\ntitle: Layout\ndate: 2025-02-01\n---\nuse </main> here\n"

UnparsedDatePost == "---\ntitle: Soon\ndate: TBD\n---\nlater\n"

PostTexts ==
    {FirstPost, SecondPost, NoFrontMatterPost, SubtitlePost, NoDatePost,
     UpdatePost, MainTagPost, UnparsedDatePost}

\* the contents the posts directory can have: any of the Markdown files may
\* be missing, the other file is always there
PostsDirs ==
    {p \in UNION {[D -> PostTexts] : D \in SUBSET (MdNames \cup {OtherName})} :
        OtherName \in DOMAIN p /\ p[OtherName] = FirstPost}

\* the orders in which fs.readdirSync may list the names
DirOrders ==
    {<<"first.md", "notes.txt", "second.md">>,
     <<"second.md", "first.md", "notes.txt">>}

BlogShell ==
    "<html><body><header><h1>Blog</h1></header><main>\n<p>No posts yet.</p>\n</main><footer>f</footer></body></html>"

HomeShell ==
    "<html><body><main><section><h2>About</h2><p>me</p></section><section>\n    <h2>Latest Posts</h2><p>none</p></section></main><footer>f</footer></body></html>"

(***************************************************************************)
(* State                                                                   *)
(***************************************************************************)

VARIABLES
    posts,        \* _posts: file name |-> content
    dirOrder,     \* the order in which readdirSync lists names
    outputDir,    \* _site/posts: file name |-> content
    blogIndex,    \* content of blog.html
    homePage,     \* content of index.html
    pc,           \* where main() is: idle, files, blog, home, done, aborted
    files,        \* processMarkdownFiles: the filtered listing
    cursor,       \* processMarkdownFiles: index of the next file of forEach
    blogEntries,  \* processMarkdownFiles: the array, later sorted in place
    runs,         \* number of runs started
    returned,     \* observation: the array as processMarkdownFiles returned it
    written,      \* observation: names written to outputDir by this run
    before,       \* observation: pages and array at the last update call
    last,         \* observation: sources and artifacts when the previous run ended
    thrown        \* the call whose exception ended the run, "none" when none did

vars ==
    <<posts, dirOrder, outputDir, blogIndex, homePage, pc, files, cursor,
      blogEntries, runs, returned, written, before, last, thrown>>

NoFiles == [n \in {} |-> ""]

NoCall == [blogIndex |-> "", homePage |-> "", entries |-> <<>>, call |-> "none"]

NoRun ==
    [valid |-> FALSE, posts |-> NoFiles, outputDir |-> NoFiles,
     blogIndex |-> "", homePage |-> "", returned |-> <<>>]

\* fs.readdirSync(postsDir).filter(file => file.endsWith('.md'))
readdirFiltered(dir, order) ==
    SelectSeq(order, LAMBDA n : n \in DOMAIN dir /\ endsWith(n, ".md"))

Init ==
    /\ posts \in PostsDirs
    /\ dirOrder \in DirOrders
    /\ outputDir = NoFiles
    /\ blogIndex = BlogShell
    /\ homePage = HomeShell
    /\ pc = "idle"
    /\ files = <<>>
    /\ cursor = 1
    /\ blogEntries = <<>>
    /\ runs = 0
    /\ returned = <<>>
    /\ written = {}
    /\ before = NoCall
    /\ last = NoRun
    /\ thrown = "none"

(***************************************************************************)
(* main(), step by step                                                    *)
(***************************************************************************)

\* main() is invoked: processMarkdownFiles lists the directory
StartRun ==
    /\ pc \in {"idle", "done"}
    /\ runs < MaxRuns
    /\ runs' = runs + 1
    /\ pc' = "files"
    /\ files' = readdirFiltered(posts, dirOrder)
    /\ cursor' = 1
    /\ blogEntries' = <<>>
    /\ returned' = <<>>
    /\ written' = {}
    /\ before' = NoCall
    /\ last' = IF pc = "done"
               THEN [valid |-> TRUE, posts |-> posts, outputDir |-> outputDir,
                     blogIndex |-> blogIndex, homePage |-> homePage,
                     returned |-> returned]
               ELSE last
    /\ thrown' = "none"
    /\ UNCHANGED <<posts, dirOrder, outputDir, blogIndex, homePage>>

\* one iteration of files.forEach
ProcessFile ==
    /\ pc = "files"
    /\ cursor <= Len(files)
    /\ LET file    == files[cursor]
           content == posts[file]
       IN  IF accepted(content)
           THEN /\ outputDir' = writeFileSync(outputDir, outputName(file),
                                              htmlOutput(file, content))
                /\ written' = written \cup {outputName(file)}
                /\ blogEntries' = Append(blogEntries, entryOf(file, content))
           ELSE UNCHANGED <<outputDir, written, blogEntries>>
    /\ cursor' = cursor + 1
    /\ UNCHANGED <<posts, dirOrder, blogIndex, homePage, pc, files, runs,
                   returned, before, last, thrown>>

\* return blogEntries, and the test entries.length > 0 of main()
ReturnEntries ==
    /\ pc = "files"
    /\ cursor > Len(files)
    /\ returned' = blogEntries
    /\ pc' = IF Len(blogEntries) > 0 THEN "blog" ELSE "done"
    /\ UNCHANGED <<posts, dirOrder, outputDir, blogIndex, homePage, files,
                   cursor, blogEntries, runs, written, before, last, thrown>>

\* updateBlogIndex(entries)
updateBlogIndex ==
    /\ pc = "blog"
    /\ before' = [blogIndex |-> blogIndex, homePage |-> homePage,
                  entries |-> blogEntries, call |-> "updateBlogIndex"]
    /\ blogEntries' = sort(blogEntries)
    /\ blogIndex' = blogIndexUpdated(blogIndex, blogEntries')
    /\ pc' = "home"
    /\ UNCHANGED <<posts, dirOrder, outputDir, homePage, files, cursor, runs,
                   returned, written, last, thrown>>

\* updateHomePage(entries)
updateHomePage ==
    /\ pc = "home"
    /\ before' = [blogIndex |-> blogIndex, homePage |-> homePage,
                  entries |-> blogEntries, call |-> "updateHomePage"]
    /\ blogEntries' = sort(blogEntries)
    /\ homePage' = homePageUpdated(homePage, blogEntries')
    /\ pc' = "done"
    /\ UNCHANGED <<posts, dirOrder, outputDir, blogIndex, files, cursor, runs,
                   returned, written, last, thrown>>

\* between two runs the author adds, rewrites or removes one Markdown file
EditSources ==
    /\ pc = "done"
    /\ runs < MaxRuns
    /\ \E p \in PostsDirs :
          /\ Cardinality({n \in MdNames :
                 (n \in DOMAIN p) # (n \in DOMAIN posts)
                 \/ (n \in DOMAIN p /\ n \in DOMAIN posts /\ p[n] # posts[n])}) = 1
          /\ posts' = p
    /\ last' = [valid |-> TRUE, posts |-> posts, outputDir |-> outputDir,
                blogIndex |-> blogIndex, homePage |-> homePage,
                returned |-> returned]
    /\ pc' = "idle"
    /\ UNCHANGED <<dirOrder, outputDir, blogIndex, homePage, files, cursor,
                   blogEntries, runs, returned, written, before, thrown>>

Next ==
    \/ StartRun
    \/ ProcessFile
    \/ ReturnEntries
    \/ updateBlogIndex
    \/ updateHomePage
    \/ EditSources

Spec == Init /\ [][Next]_vars

(***************************************************************************)
(* Direct calls of updateBlogIndex and updateHomePage                      *)
(***************************************************************************)

\* dates of the entries of a call
SortDates == {"2025-01-01", "2025-02-01", "2025-03-01", "TBD"}

\* dates of the entries of a longer array, position by position: a blog with
\* several undated drafts among posts of two dates
LongDateChoices ==
    <<{"TBD"}, {"TBD"}, {"TBD"}, {"2025-01-01", "2025-03-01"}, {"TBD"},
      {"2025-01-01", "2025-03-01"}, {"2025-01-01", "2025-03-01"},
      {"2025-01-01", "2025-03-01"}>>

\* titles with text that the regular expressions or the replacement patterns
\* of String.prototype.replace react to
SpliceTitles ==
    {"Plain", "a </main> b", "<main>", "</section>", "$&", "$'",
     "$" \o BackQuote, "$1", "$$"}

BlogShells ==
    {BlogShell,
     "<html><body><p>no region</p></body></html>",
     "<main>a</main><p>between</p><main>b</main><p>end</p>",
     "<p>x</main><main>y</main>tail</main>z",
     "<p>costs $1</p><main>never closed"}

HomeShells ==
    {HomeShell,
     "<html><section><h2>About</h2></section><p>no latest</p></html>",
     "<section><h2>Latest Posts</h2><section>inner</section>after</section>tail",
     "<p>$&</p><section> \n\t<h2>Latest Posts</h2>a</section><section><h2>Latest Posts</h2>b</section>"}

\* the entry at position i of an array handed to a call
entryAt(i, title, date) ==
    [title   |-> title,
     date    |-> date,
     slug    |-> "p" \o ToString(i),
     preview |-> title \o "..."]

\* arrays of up to MaxEntries entries with every choice of dates
SortArrays ==
    UNION {{[i \in 1..n |-> entryAt(i, "Post " \o ToString(i), d[i])] :
               d \in [1..n -> SortDates]} : n \in 0..MaxEntries}

LongArrays ==
    {[i \in 1..Len(LongDateChoices) |-> entryAt(i, "Post " \o ToString(i), d[i])] :
        d \in {f \in [1..Len(LongDateChoices) -> SortDates] :
                  \A i \in 1..Len(LongDateChoices) : f[i] \in LongDateChoices[i]}}

\* arrays of up to two entries with every choice of titles
SpliceArrays ==
    UNION {{[i \in 1..n |-> entryAt(i, t[i], "2025-01-01")] :
               t \in [1..n -> SpliceTitles]} : n \in 0..2}

InitUpdate ==
    /\ posts = NoFiles
    /\ dirOrder = <<>>
    /\ outputDir = NoFiles
    /\ pc \in {"blog", "home"}
    /\ \/ /\ blogEntries \in SortArrays \cup LongArrays
          /\ blogIndex = BlogShell
          /\ homePage = HomeShell
       \/ /\ blogEntries \in SpliceArrays
          /\ blogIndex \in BlogShells
          /\ homePage \in HomeShells
    /\ returned = blogEntries
    /\ files = <<>>
    /\ cursor = 1
    /\ runs = 0
    /\ written = {}
    /\ before = NoCall
    /\ last = NoRun
    /\ thrown = "none"

NextUpdate ==
    \/ updateBlogIndex
    \/ updateHomePage

SpecUpdate == InitUpdate /\ [][NextUpdate]_vars

(***************************************************************************)
(* processMarkdownFiles over file names and file contents of many shapes   *)
(***************************************************************************)

\* names that end in .md, two of them with .md earlier in the name
FileNames == {"a.mdb.md", "ab.md.md", "plain.md"}

\* the first two lines of the body are 80 characters each
LongPost ==
    "---\ntitle: Long\ndate: 2025-03-01\n---\n"
    \o "The first line of this post is a sentence that runs on for exactly eighty chars.\n"
    \o "Its second line is just as long, so both lines joined pass the preview limit ok.\n"
    \o "tail\n"

\* the first two lines of the body, joined by a space, are 150 characters
EdgePost ==
    "---\ntitle: Edge\ndate: 2025-04-01\n---\n"
    \o "This first line has seventy characters in it, not one more or less ok.\n"
    \o "And this second line has seventy-nine characters, so the joined text is 150 ok.\n"

\* a body of one line that no line break ends
OneLinePost == "---\ntitle: One\ndate: 2025-05-01\n---\nonly"

\* the title value ends in three dashes
DashTitlePost == "---\ntitle: Intro ---\ndate: 2025-02-01\n---\nbody\n"

\* the date line ends in three dashes and the body holds a marker line
MidDashPost == "---\ntitle: Mid\ndate: 2025-06-01 ---\nmid\n---\nbody\n"

\* one marker line only
OneMarkerPost == "title: Open\ndate: 2025-07-01\n---\nbody\n"

\* the title key with nothing after it, and the date key with nothing after it
EmptyTitlePost == "---\ntitle: \ndate: 2025-01-01\n---\nbody\n"

EmptyDatePost == "---\ntitle: Undated\ndate: \n---\nbody\n"

FileTexts ==
    {FirstPost, LongPost, EdgePost, OneLinePost, DashTitlePost, MidDashPost,
     OneMarkerPost, EmptyTitlePost, EmptyDatePost}

\* the posts directory holds one or two of the files
FilesDirs ==
    {p \in UNION {[D -> FileTexts] : D \in SUBSET FileNames} :
        Cardinality(DOMAIN p) \in 1..2}

\* the orders in which fs.readdirSync may list the names D
ordersOf(D) ==
    {o \in [1..Cardinality(D) -> D] :
        \A i, j \in 1..Cardinality(D) : i # j => o[i] # o[j]}

InitFiles ==
    /\ posts \in FilesDirs
    /\ dirOrder \in ordersOf(DOMAIN posts)
    /\ outputDir = NoFiles
    /\ blogIndex = BlogShell
    /\ homePage = HomeShell
    /\ pc = "idle"
    /\ files = <<>>
    /\ cursor = 1
    /\ blogEntries = <<>>
    /\ runs = 0
    /\ returned = <<>>
    /\ written = {}
    /\ before = NoCall
    /\ last = NoRun
    /\ thrown = "none"

NextFiles ==
    \/ StartRun
    \/ ProcessFile
    \/ ReturnEntries
    \/ updateBlogIndex
    \/ updateHomePage

SpecFiles == InitFiles /\ [][NextFiles]_vars

(***************************************************************************)
(* Runs that an exception ends                                             *)
(***************************************************************************)

\* an exception handler around the failing call that lets the run go on
throwCaught(call) ==
    /\ thrown' = call
    /\ pc' = pc

\* an exception of a call: nothing in processMarkdownFiles or main catches
\* it, so it leaves main() and ends the process
throw(call) ==
    /\ thrown' = call
    /\ pc' = "aborted"

\* main() is invoked and fs.existsSync, fs.mkdirSync or fs.readdirSync throws
readdirSyncThrows ==
    /\ pc \in {"idle", "done"}
    /\ runs < MaxRuns
    /\ runs' = runs + 1
    /\ throw("readdirSync")
    /\ files' = <<>>
    /\ cursor' = 1
    /\ blogEntries' = <<>>
    /\ returned' = <<>>
    /\ written' = {}
    /\ before' = NoCall
    /\ last' = IF pc = "done"
               THEN [valid |-> TRUE, posts |-> posts, outputDir |-> outputDir,
                     blogIndex |-> blogIndex, homePage |-> homePage,
                     returned |-> returned]
               ELSE last
    /\ UNCHANGED <<posts, dirOrder, outputDir, blogIndex, homePage>>

\* fs.readFileSync throws for the file the loop is at
readFileSyncThrows ==
    /\ pc = "files"
    /\ cursor <= Len(files)
    /\ throw("readFileSync")
    /\ UNCHANGED <<posts, dirOrder, outputDir, blogIndex, homePage, files,
                   cursor, blogEntries, runs, returned, written, before, last>>

\* marked.parse throws for the body of an accepted file
markedParseThrows ==
    /\ pc = "files"
    /\ cursor <= Len(files)
    /\ accepted(posts[files[cursor]])
    /\ throw("marked.parse")
    /\ UNCHANGED <<posts, dirOrder, outputDir, blogIndex, homePage, files,
                   cursor, blogEntries, runs, returned, written, before, last>>

\* fs.writeFileSync throws for the page of an accepted file: the page is not
\* written; the file was either not opened or opened and left empty
writeFileSyncThrows ==
    /\ pc = "files"
    /\ cursor <= Len(files)
    /\ accepted(posts[files[cursor]])
    /\ throw("writeFileSync")
    /\ \/ outputDir' = outputDir
       \/ outputDir' = writeFileSync(outputDir, outputName(files[cursor]), "")
    /\ UNCHANGED <<posts, dirOrder, blogIndex, homePage, files, cursor,
                   blogEntries, runs, returned, written, before, last>>

NextErrors ==
    \/ StartRun
    \/ ProcessFile
    \/ ReturnEntries
    \/ updateBlogIndex
    \/ updateHomePage
    \/ readdirSyncThrows
    \/ readFileSyncThrows
    \/ markedParseThrows
    \/ writeFileSyncThrows

SpecErrors == Init /\ [][NextErrors]_vars

\* updateBlogIndex throws: fs.readFileSync('blog.html') fails before anything
\* is computed, or fs.writeFileSync('blog.html') fails after the sort, with
\* the file untouched or opened for writing and left empty
updateBlogIndexThrows ==
    /\ pc = "blog"
    /\ \/ /\ throw("readFileSync(blog.html)")
          /\ UNCHANGED <<blogIndex, blogEntries>>
       \/ /\ throw("writeFileSync(blog.html)")
          /\ blogEntries' = sort(blogEntries)
          /\ blogIndex' \in {blogIndex, ""}
    /\ UNCHANGED <<posts, dirOrder, outputDir, homePage, files, cursor, runs,
                   returned, written, before, last>>

\* the same failures of updateHomePage, at pc = "blog": a main() that
\* updates the home page first
updateHomePageThrowsFirst ==
    /\ pc = "blog"
    /\ \/ /\ throw("readFileSync(index.html)")
          /\ UNCHANGED <<homePage, blogEntries>>
       \/ /\ throw("writeFileSync(index.html)")
          /\ blogEntries' = sort(blogEntries)
          /\ homePage' \in {homePage, ""}
    /\ UNCHANGED <<posts, dirOrder, outputDir, blogIndex, files, cursor, runs,
                   returned, written, before, last>>

\* updateHomePage throws: fs.readFileSync('index.html') fails, or
\* fs.writeFileSync('index.html') fails after the sort, with the file
\* untouched or opened for writing and left empty
updateHomePageThrows ==
    /\ pc = "home"
    /\ \/ /\ throw("readFileSync(index.html)")
          /\ UNCHANGED <<homePage, blogEntries>>
       \/ /\ throw("writeFileSync(index.html)")
          /\ blogEntries' = sort(blogEntries)
          /\ homePage' \in {homePage, ""}
    /\ UNCHANGED <<posts, dirOrder, outputDir, blogIndex, files, cursor, runs,
                   returned, written, before, last>>

\* runs that may fail at any call of main()
NextAbort ==
    \/ StartRun
    \/ ProcessFile
    \/ ReturnEntries
    \/ updateBlogIndex
    \/ updateHomePage
    \/ readdirSyncThrows
    \/ readFileSyncThrows
    \/ markedParseThrows
    \/ writeFileSyncThrows
    \/ updateBlogIndexThrows
    \/ updateHomePageThrows

SpecAbort == Init /\ [][NextAbort]_vars

\* main() is invoked again after a run that an exception ended
Rerun ==
    /\ pc = "aborted"
    /\ runs < MaxRuns
    /\ runs' = runs + 1
    /\ pc' = "files"
    /\ files' = readdirFiltered(posts, dirOrder)
    /\ cursor' = 1
    /\ blogEntries' = <<>>
    /\ returned' = <<>>
    /\ written' = {}
    /\ before' = NoCall
    /\ thrown' = "none"
    /\ UNCHANGED <<posts, dirOrder, outputDir, blogIndex, homePage, last>>

NextRetry ==
    \/ StartRun
    \/ ProcessFile
    \/ ReturnEntries
    \/ updateBlogIndex
    \/ updateHomePage
    \/ readdirSyncThrows
    \/ readFileSyncThrows
    \/ markedParseThrows
    \/ writeFileSyncThrows
    \/ updateBlogIndexThrows
    \/ updateHomePageThrows
    \/ Rerun

SpecRetry == Init /\ [][NextRetry]_vars

(***************************************************************************)
(* What a post file declares, read line by line                            *)
(***************************************************************************)

\* the lines of a file
linesOf(content) == split(content)

\* the positions of the marker lines
markerLines(content) ==
    {i \in 1..Len(linesOf(content)) : linesOf(content)[i] = "---"}

firstMarker(content) == MinOf(markerLines(content))

secondMarker(content) == MinOf(markerLines(content) \ {firstMarker(content)})

hasFrontMatter(content) == Cardinality(markerLines(content)) >= 2

\* the positions of the front-matter lines that begin with the key
fieldLines(content, key) ==
    {i \in (firstMarker(content) + 1)..(secondMarker(content) - 1) :
        startsWith(linesOf(content)[i], key, 1)}

\* the trimmed remainder of the first front-matter line that begins with key
declared(content, key) ==
    trim(from(linesOf(content)[MinOf(fieldLines(content, key))], Len(key) + 1))

\* everything after the second marker line
declaredBody(content) ==
    join(SubSeq(linesOf(content), secondMarker(content) + 1,
                Len(linesOf(content))), "\n")

\* neither malformed for want of markers nor for want of a title or date line
wellFormed(content) ==
    /\ hasFrontMatter(content)
    /\ fieldLines(content, "title:") # {}
    /\ fieldLines(content, "date:") # {}

\* the Markdown files of the posts directory
markdownFiles == {f \in DOMAIN posts : endsWith(f, ".md")}

\* the link by which an aggregator page lists the post of a file or entry
linkTo(slug) == "href=\"posts/" \o slug \o ".html\""

lists(page, slug) == includes(page, linkTo(slug))

slugsOf(entries) == {entries[i].slug : i \in 1..Len(entries)}

datesParse(entries) ==
    \A i \in 1..Len(entries) : newDate(entries[i].date).valid

\* the previous run ended with the sources as they are now
sourcesUnchanged == last.valid /\ last.posts = posts

(***************************************************************************)
(* Claims about a build run                                                *)
(***************************************************************************)

\* C1: when a run is complete, every Markdown file whose front matter has a
\* title line with value T and a date line with value D, and whose body is B,
\* has the page <slug>.html, and that page is the fixed template with T in
\* the title and h1 elements, D in the date paragraph and the converted B in
\* the article.
C1_PageCarriesTitleDateBody ==
    pc = "done" =>
        \A f \in markdownFiles :
            wellFormed(posts[f]) =>
                /\ outputName(f) \in DOMAIN outputDir
                /\ outputDir[outputName(f)] =
                       createHtmlFromMarkdown(declared(posts[f], "title:"),
                                              declared(posts[f], "date:"),
                                              markedParse(declaredBody(posts[f])))

\* C2: within a run, a Markdown file without the marker pair, without a
\* title line or without a date line adds no entry to the returned array and
\* has no page written by the run, while every other Markdown file gets its
\* page written.
C2_MalformedFileSkipped ==
    pc \in {"blog", "home", "done"} =>
        \A f \in markdownFiles :
            IF wellFormed(posts[f])
            THEN outputName(f) \in written
            ELSE /\ outputName(f) \notin written
                 /\ slugOf(f) \notin slugsOf(returned)

\* C3: after any complete run, a Markdown file that is malformed at that run
\* has no page in the output directory and is listed neither in the blog
\* index nor in the home page.
C3_MalformedPostNowhere ==
    pc = "done" =>
        \A f \in markdownFiles :
            ~wellFormed(posts[f]) =>
                /\ outputName(f) \notin DOMAIN outputDir
                /\ ~lists(blogIndex, slugOf(f))
                /\ ~lists(homePage, slugOf(f))

\* C4: a run that follows a complete run with the sources unchanged leaves
\* the post pages, the blog index and the home page exactly as the previous
\* run left them.
C4_BuildIdempotent ==
    (pc = "done" /\ sourcesUnchanged) =>
        /\ outputDir = last.outputDir
        /\ blogIndex = last.blogIndex
        /\ homePage = last.homePage

\* C5: processMarkdownFiles run again with the sources unchanged writes the
\* same post pages and returns the same array of entries as the run before.
C5_ProcessIdempotent ==
    (pc \in {"blog", "home", "done"} /\ sourcesUnchanged) =>
        /\ outputDir = last.outputDir
        /\ returned = last.returned

\* a second run over unchanged sources that produced two entries is through
C5_SecondRunDone ==
    /\ pc = "done"
    /\ sourcesUnchanged
    /\ Len(returned) = 2
    /\ Cardinality(written) = 2

\* C10: after every complete run, whatever the number of entries it found,
\* the blog index and the home page list exactly the posts of that run's
\* entries.
C10_PagesListRunEntries ==
    (pc = "done" /\ runs > 0) =>
        \A n \in MdNames :
            /\ lists(blogIndex, slugOf(n)) <=> slugOf(n) \in slugsOf(returned)
            /\ lists(homePage, slugOf(n)) <=> slugOf(n) \in slugsOf(returned)

(***************************************************************************)
(* Claims about one call of updateBlogIndex or updateHomePage              *)
(***************************************************************************)

\* where a page lists the entry with this slug, 0 when it does not
fragmentAt(page, slug) == indexOf(page, linkTo(slug), 1)

\* the page the last call wrote
pageWritten == IF before.call = "updateBlogIndex" THEN blogIndex ELSE homePage

\* entry a is strictly older than entry b, both dates parsed
older(a, b) ==
    /\ newDate(a.date).valid
    /\ newDate(b.date).valid
    /\ newDate(a.date).days < newDate(b.date).days

sameDate(a, b) ==
    /\ newDate(a.date).valid
    /\ newDate(b.date).valid
    /\ newDate(a.date).days = newDate(b.date).days

\* no fragment of the blog index is preceded by the fragment of a strictly
\* older entry
newestFirst ==
    \E at \in {[i \in 1..Len(before.entries) |->
                    fragmentAt(blogIndex, before.entries[i].slug)]} :
        \A i, j \in 1..Len(before.entries) :
            (older(before.entries[i], before.entries[j]) /\ at[i] > 0 /\ at[j] > 0)
                => at[j] < at[i]

\* C6 as stated: for every array of entries, updateBlogIndex renders the
\* fragments newest first.
C6_NewestFirstForEveryArray ==
    before.call = "updateBlogIndex" => newestFirst

\* C6 amended: for every array of entries whose dates all parse,
\* updateBlogIndex renders the fragments newest first.
C6_NewestFirstWhenDatesParse ==
    (before.call = "updateBlogIndex" /\ datesParse(before.entries))
        => newestFirst

\* updateBlogIndex has rendered entries dated 2025-01-01, 2025-03-01 and
\* 2025-02-01, handed over in that order
C6_ThreeDatesRendered ==
    /\ before.call = "updateBlogIndex"
    /\ Len(before.entries) = 3
    /\ before.entries[1].date = "2025-01-01"
    /\ before.entries[2].date = "2025-03-01"
    /\ before.entries[3].date = "2025-02-01"
    /\ fragmentAt(blogIndex, "p2") > 0
    /\ fragmentAt(blogIndex, "p2") < fragmentAt(blogIndex, "p3")
    /\ fragmentAt(blogIndex, "p3") < fragmentAt(blogIndex, "p1")

\* two entries of equal date are rendered in the order in which
\* processMarkdownFiles accumulated them
tiesKeepOrder ==
    \E at \in {[i \in 1..Len(returned) |->
                    fragmentAt(pageWritten, returned[i].slug)]} :
        \A i, j \in 1..Len(returned) :
            (i < j /\ sameDate(returned[i], returned[j]) /\ at[i] > 0 /\ at[j] > 0)
                => at[i] < at[j]

\* C7 as stated: the sort of updateBlogIndex and updateHomePage is stable.
C7_SortStable ==
    before.call # "none" => tiesKeepOrder

\* C7 amended: when the dates of all entries parse, the sort of
\* updateBlogIndex and updateHomePage is stable.
C7_SortStableWhenDatesParse ==
    (before.call # "none" /\ datesParse(returned)) => tiesKeepOrder

\* a page was written from an array in which an entry of a newer date stands
\* between two entries of the same date
C7_TieRendered ==
    /\ before.call # "none"
    /\ Len(returned) = 3
    /\ sameDate(returned[1], returned[3])
    /\ older(returned[1], returned[2])
    /\ fragmentAt(pageWritten, "p1") > 0
    /\ fragmentAt(pageWritten, "p1") < fragmentAt(pageWritten, "p3")

\* the entries of the call that the home page lists
shownOnHome ==
    {i \in 1..Len(before.entries) : lists(homePage, before.entries[i].slug)}

\* the home page lists min(3, n) of the n entries, and none of the entries
\* it leaves out is strictly newer than one it lists
threeMostRecent ==
    \E shown \in {shownOnHome} :
        /\ Cardinality(shown) =
               IF Len(before.entries) < 3 THEN Len(before.entries) ELSE 3
        /\ \A i \in shown :
               \A j \in (1..Len(before.entries)) \ shown :
                   ~older(before.entries[i], before.entries[j])

\* C8 as stated: given n entries, updateHomePage renders exactly min(3, n)
\* fragments into the Latest Posts section, those of the most recent posts.
C8_ThreeMostRecent ==
    (before.call = "updateHomePage" /\ sectionContentRegex(before.homePage).found)
        => threeMostRecent

\* C8 amended: given n entries whose dates all parse, updateHomePage renders
\* exactly min(3, n) fragments into the Latest Posts section, those of the
\* most recent posts.
C8_ThreeMostRecentWhenDatesParse ==
    (/\ before.call = "updateHomePage"
     /\ sectionContentRegex(before.homePage).found
     /\ datesParse(before.entries))
        => threeMostRecent

\* updateHomePage was given five entries of parsed dates, listed three and
\* left out two
C8_FiveGivenThreeShown ==
    /\ before.call = "updateHomePage"
    /\ Len(before.entries) = 5
    /\ datesParse(before.entries)
    /\ Cardinality(shownOnHome) = 3

\* the first <main> ... </main> region of a page: the position of its opening
\* tag and the position after its closing tag, 0 and 0 when there is none
mainRegion(page) ==
    LET open  == indexOf(page, "<main>", 1)
        close == IF open = 0 THEN 0 ELSE indexOf(page, "</main>", open + 6)
    IN  IF close = 0 THEN <<0, 0>> ELSE <<open, close + 7>>

\* the first region that opens with <section>, white space and the Latest
\* Posts heading and closes with the next </section>
latestPostsRegion(page) ==
    LET opens == {i \in 1..Len(page) :
                     /\ startsWith(page, "<section>", i)
                     /\ \E k \in (i + 9)..Len(page) :
                           /\ startsWith(page, LatestPostsHeading, k)
                           /\ \A w \in (i + 9)..(k - 1) : isWhiteSpace(charAt(page, w))}
        open  == IF opens = {} THEN 0 ELSE MinOf(opens)
        head  == indexOf(page, LatestPostsHeading, open + 9)
        close == IF open = 0 THEN 0
                 ELSE indexOf(page, "</section>", head + Len(LatestPostsHeading))
    IN  IF close = 0 THEN <<0, 0>> ELSE <<open, close + 10>>

\* new is old with at most the region changed: the text before the region
\* and the text after it are where they were; without a region nothing changed
onlyRegionChanged(old, new, region) ==
    IF region[1] = 0 THEN new = old
    ELSE /\ Len(new) >= (region[1] - 1) + (Len(old) - region[2] + 1)
         /\ SubSeq(new, 1, region[1] - 1) = SubSeq(old, 1, region[1] - 1)
         /\ endsWith(new, from(old, region[2]))

\* C9: for every prior content of the two pages and every array of entries,
\* an update call leaves the text before the opening tag of the marker region
\* and the text after its closing tag byte for byte as they were.
C9_OutsideRegionUnchanged ==
    /\ before.call = "updateBlogIndex" =>
           /\ onlyRegionChanged(before.blogIndex, blogIndex,
                                mainRegion(before.blogIndex))
           /\ homePage = before.homePage
    /\ before.call = "updateHomePage" =>
           /\ onlyRegionChanged(before.homePage, homePage,
                                latestPostsRegion(before.homePage))
           /\ blogIndex = before.blogIndex

\* updateBlogIndex has rewritten the region of a page that has text before
\* the region, text after it and a second region, from an entry whose title
\* holds a replacement pattern
C9_RegionRewritten ==
    /\ before.call = "updateBlogIndex"
    /\ before.blogIndex = "<main>a</main><p>between</p><main>b</main><p>end</p>"
    /\ Len(before.entries) = 1
    /\ before.entries[1].title = "$'"
    /\ blogIndex # before.blogIndex

\* C11: updateBlogIndex replaces the first <main> ... </main> region, tags
\* included, with a <main> region that wraps the fragments of the entries in
\* their sorted order, each with the title, date and preview exactly as the
\* entry stores them, whatever characters they hold.
C11_FragmentsAsStored ==
    (before.call = "updateBlogIndex" /\ mainRegion(before.blogIndex)[1] > 0) =>
        blogIndex =
            SubSeq(before.blogIndex, 1, mainRegion(before.blogIndex)[1] - 1)
                \o "<main>\n    " \o blogEntriesHtml(blogEntries) \o "\n    </main>"
                \o from(before.blogIndex, mainRegion(before.blogIndex)[2])

\* C12: a call of updateBlogIndex on a blog index without a <main> ...
\* </main> region, or of updateHomePage on a home page without a Latest Posts
\* section, raises no error, returns, and leaves the content of the file as
\* it was.
C12_NoRegionNoChange ==
    /\ (before.call = "updateBlogIndex" /\ mainRegion(before.blogIndex) = <<0, 0>>)
           => (blogIndex = before.blogIndex /\ thrown = "none" /\ pc = "home")
    /\ (before.call = "updateHomePage"
           /\ latestPostsRegion(before.homePage) = <<0, 0>>)
           => (homePage = before.homePage /\ thrown = "none" /\ pc = "done")

\* updateBlogIndex was called with an entry on a blog index whose <main> tag
\* is never closed
C12_CalledWithoutRegion ==
    /\ before.call = "updateBlogIndex"
    /\ before.blogIndex = "<p>costs $1</p><main>never closed"
    /\ Len(before.entries) = 2
    /\ pc = "home"

(***************************************************************************)
(* Claims about the entries and pages of processMarkdownFiles              *)
(***************************************************************************)

\* the files of the listing that the run accepted, in the order of the
\* listing; the k-th of them is the file of the k-th entry
acceptedFiles == SelectSeq(files, LAMBDA f : accepted(posts[f]))

\* the raw body of the k-th accepted file: the text handed to the converter
rawBody(k) == frontMatterRegex(posts[acceptedFiles[k]]).group2

\* the first line of a text, and its second line (empty when it has none)
firstLine(text) ==
    IF indexOf(text, "\n", 1) = 0 THEN text
    ELSE SubSeq(text, 1, indexOf(text, "\n", 1) - 1)

secondLine(text) ==
    LET n1 == indexOf(text, "\n", 1)
        n2 == indexOf(text, "\n", n1 + 1)
    IN  IF n1 = 0 THEN ""
        ELSE IF n2 = 0 THEN from(text, n1 + 1)
        ELSE SubSeq(text, n1 + 1, n2 - 1)

\* the first two lines joined with a single space; a text of one line is
\* that line
twoLinesJoined(text) ==
    IF indexOf(text, "\n", 1) = 0 THEN text
    ELSE firstLine(text) \o " " \o secondLine(text)

processDone == pc \in {"blog", "home", "done"}

\* C13: the preview of every entry is the first two lines of the raw body
\* joined with a single space, cut to its first 150 characters, followed by
\* three dots; it is 150 characters and the dots when the joined lines exceed
\* 150 characters and is never longer than 153 characters.
C13_PreviewFromTwoLines ==
    processDone =>
        /\ Len(returned) = Len(acceptedFiles)
        /\ \A k \in 1..Len(returned) :
               \E joined \in {twoLinesJoined(rawBody(k))} :
                   /\ returned[k].preview =
                          (IF Len(joined) > 150 THEN SubSeq(joined, 1, 150)
                           ELSE joined) \o "..."
                   /\ Len(returned[k].preview) <= 153
                   /\ Len(joined) > 150 => Len(returned[k].preview) = 153

\* a run returned an entry whose two joined lines exceed 150 characters and
\* one whose two joined lines are exactly 150 characters
C13_LongAndEdgePreview ==
    /\ pc = "done"
    /\ Len(returned) = 2
    /\ Len(twoLinesJoined(rawBody(1))) = 161
    /\ Len(twoLinesJoined(rawBody(2))) = 150
    /\ Len(returned[1].preview) = 153
    /\ Len(returned[2].preview) = 153

\* C14 as stated: for every post whose body is shorter than 150 characters
\* the preview holds the body in full, every line of it, followed by three
\* dots.
C14_ShortBodyInFull ==
    processDone =>
        \A k \in 1..Len(returned) :
            Len(rawBody(k)) < 150 =>
                /\ endsWith(returned[k].preview, "...")
                /\ \A i \in 1..Len(split(rawBody(k))) :
                       includes(returned[k].preview, split(rawBody(k))[i])

\* C14 amended: for every post whose body is shorter than 150 characters the
\* preview holds the first two lines of the body in full, joined by a single
\* space and followed by three dots, and nothing of the later lines.
C14_ShortBodyFirstTwoLines ==
    processDone =>
        \A k \in 1..Len(returned) :
            Len(rawBody(k)) < 150 =>
                returned[k].preview =
                    (IF indexOf(rawBody(k), "\n", 1) = 0 THEN rawBody(k)
                     ELSE firstLine(rawBody(k)) \o " " \o secondLine(rawBody(k)))
                    \o "..."

\* a run returned the entry of a post whose body has three short lines
C14_ThreeShortLines ==
    /\ pc = "done"
    /\ Len(returned) = 1
    /\ rawBody(1) = "hello\nworld\nmore\n"
    /\ returned[1].preview = "hello world..."

\* the file name without its last three characters
withoutExtension(file) == SubSeq(file, 1, Len(file) - 3)

\* C17: for every file name ending in .md the slug is the name with that
\* trailing extension stripped and nothing else changed, also when .md occurs
\* earlier in the name: the entry of the file carries that slug and the page
\* is written under it.
C17_SlugStripsExtension ==
    processDone =>
        \A k \in 1..Len(acceptedFiles) :
            /\ k <= Len(returned)
            /\ returned[k].slug = withoutExtension(acceptedFiles[k])
            /\ (withoutExtension(acceptedFiles[k]) \o ".html") \in written

\* C18: a run produces one entry and one page per valid file, a valid file
\* being one the run accepts: the entries are as many as the valid files,
\* their slugs are pairwise different, and the pages written are as many as
\* the valid files, none overwritten by the page of another file.
C18_OnePagePerValidFile ==
    processDone =>
        /\ Len(returned) = Len(acceptedFiles)
        /\ Cardinality(slugsOf(returned)) = Len(acceptedFiles)
        /\ Cardinality(written) = Len(acceptedFiles)

\* the front matter a file declares: the lines between its first two marker
\* lines
declaredFrontMatter(content) ==
    join(SubSeq(linesOf(content), firstMarker(content) + 1,
                secondMarker(content) - 1) \o <<"">>, "\n")

\* C20: for every file the run has read, the front matter is the text
\* between the first and the second marker line and the body is everything
\* after the second marker line, dashes that are not a line of their own
\* neither opening nor closing the block; a file without two marker lines
\* is skipped.
C20_FrontMatterBetweenMarkerLines ==
    pc # "idle" =>
        \A i \in 1..Len(files) :
            i < cursor =>
                \E m \in {frontMatterRegex(posts[files[i]])} :
                    IF hasFrontMatter(posts[files[i]])
                    THEN /\ m.found
                         /\ m.group1 = declaredFrontMatter(posts[files[i]])
                         /\ m.group2 = declaredBody(posts[files[i]])
                    ELSE ~m.found

(***************************************************************************)
(* The first build as a function of the directory and its listing order    *)
(***************************************************************************)

\* the array processMarkdownFiles returns for a directory listed in an order
RECURSIVE entriesIn(_, _)
entriesIn(dir, names) ==
    IF names = <<>> THEN <<>>
    ELSE (IF accepted(dir[Head(names)])
          THEN <<entryOf(Head(names), dir[Head(names)])>>
          ELSE <<>>) \o entriesIn(dir, Tail(names))

\* the pages processMarkdownFiles writes into the directory out
RECURSIVE pagesIn(_, _, _)
pagesIn(dir, names, out) ==
    IF names = <<>> THEN out
    ELSE pagesIn(dir, Tail(names),
                 IF accepted(dir[Head(names)])
                 THEN writeFileSync(out, outputName(Head(names)),
                                    htmlOutput(Head(names), dir[Head(names)]))
                 ELSE out)

\* the artifacts after main() has run once from the initial pages
buildOf(dir, order) ==
    LET names   == readdirFiltered(dir, order)
        entries == entriesIn(dir, names)
    IN  [outputDir |-> pagesIn(dir, names, NoFiles),
         blogIndex |-> IF Len(entries) > 0
                       THEN blogIndexUpdated(BlogShell, sort(entries))
                       ELSE BlogShell,
         homePage  |-> IF Len(entries) > 0
                       THEN homePageUpdated(HomeShell, sort(sort(entries)))
                       ELSE HomeShell]

\* C19: the order in which the posts directory is listed has no effect on
\* the result of a build: the post pages, the blog index and the home page
\* after the first run are those the run would have produced under any other
\* order of the same files.
C19_OrderHasNoEffect ==
    (pc = "done" /\ runs = 1) =>
        \A o \in ordersOf(DOMAIN posts) :
            buildOf(posts, o) =
                [outputDir |-> outputDir, blogIndex |-> blogIndex,
                 homePage |-> homePage]

(***************************************************************************)
(* Claims about runs that an exception ends                                *)
(***************************************************************************)

\* C15: when reading or converting a file fails, the run is over and has
\* left no partial output: no page of this run was written for the files
\* processed before the failing one.
C15_NoPartialOutput ==
    thrown \in {"readFileSync", "marked.parse"} =>
        /\ pc = "aborted"
        /\ written = {}

\* the blog index and the home page as they were when the run started
pagesAtStart ==
    IF last.valid
    THEN [blogIndex |-> last.blogIndex, homePage |-> last.homePage]
    ELSE [blogIndex |-> BlogShell, homePage |-> HomeShell]

\* C16: an error while reading the posts directory, reading a file,
\* converting a body or writing a page ends the run at that point: from then
\* on no later file is processed, no entry is added, no update is called, and
\* the blog index and the home page are as they were when the run started.
C16_ErrorEndsRun ==
    [][thrown' # "none" =>
          /\ pc' = "aborted"
          /\ before' = NoCall
          /\ blogIndex' = pagesAtStart'.blogIndex
          /\ homePage' = pagesAtStart'.homePage
          /\ thrown # "none" =>
                 UNCHANGED <<cursor, blogEntries, written, outputDir>>]_vars

\* the second run was ended by a failing write of the first of two files,
\* after a first run that rewrote both pages
C16_SecondRunAborted ==
    /\ thrown = "writeFileSync"
    /\ runs = 2
    /\ Len(files) = 2
    /\ cursor = 1
    /\ last.valid
    /\ last.blogIndex # BlogShell
    /\ pc = "aborted"

(***************************************************************************)
(* Claims about fields, listings and pages over sequences of runs          *)
(***************************************************************************)

\* C21: the title of a post is the trimmed remainder of the front-matter
\* line that begins with title:, its date the trimmed remainder of the line
\* that begins with date:, with or without a space after the colon; the text
\* of a key inside another line is not the field, so a file without such a
\* line has no entry.
C21_FieldsFromTheirLines ==
    processDone =>
        \A f \in markdownFiles :
            hasFrontMatter(posts[f]) =>
                IF fieldLines(posts[f], "title:") # {}
                       /\ fieldLines(posts[f], "date:") # {}
                THEN \E k \in 1..Len(returned) :
                        /\ returned[k].slug = slugOf(f)
                        /\ returned[k].title = declared(posts[f], "title:")
                        /\ returned[k].date = declared(posts[f], "date:")
                ELSE slugOf(f) \notin slugsOf(returned)

\* the text of BlogShell before its <main> region, and the text after it
BlogShellHead == SubSeq(BlogShell, 1, mainRegion(BlogShell)[1] - 1)

BlogShellFoot == from(BlogShell, mainRegion(BlogShell)[2])

\* C27: after a complete run that found an entry, the blog index holds the
\* fragments of that run's entries and nothing else inside its <main>
\* region or after it: no fragment or remnant of an earlier run survives.
C27_NoRemnantInBlogIndex ==
    (pc = "done" /\ Len(returned) > 0) =>
        blogIndex = BlogShellHead \o "<main>\n    " \o blogEntriesHtml(blogEntries)
                        \o "\n    </main>" \o BlogShellFoot

\* C28: no step of any run removes a file from the output directory.
C28_OutputNeverShrinks ==
    [][DOMAIN outputDir \subseteq DOMAIN outputDir']_vars

\* a run is complete after the source of a post with a page was removed, and
\* the page is still there
C28_PageOutlivesSource ==
    /\ pc = "done"
    /\ runs = 2
    /\ "first.md" \notin DOMAIN posts
    /\ "second.html" \in written
    /\ "first.html" \in DOMAIN outputDir

\* C26: at every point of every sequence of runs, a post that the blog index
\* or the home page links has its page in the output directory.
C26_LinkedPagesPresent ==
    \A n \in MdNames :
        (lists(blogIndex, slugOf(n)) \/ lists(homePage, slugOf(n)))
            => outputName(n) \in DOMAIN outputDir

\* the blog index was rewritten with the links of two posts and the home
\* page not yet
C26_BlogIndexRewritten ==
    /\ pc = "home"
    /\ lists(blogIndex, "first")
    /\ lists(blogIndex, "second")
    /\ ~lists(homePage, "first")
    /\ {"first.html", "second.html"} \subseteq DOMAIN outputDir

(***************************************************************************)
(* Claims about the home page after both update calls                      *)
(***************************************************************************)

\* both update calls of a run are through, and the blog index lists every
\* entry of the run
bothPagesWritten ==
    /\ pc = "done"
    /\ before.call = "updateHomePage"
    /\ sectionContentRegex(before.homePage).found
    /\ \A i \in 1..Len(returned) : fragmentAt(blogIndex, returned[i].slug) > 0

\* the home page lists the entries that are among the first three of the
\* blog index, in the order of the blog index
sameOrderAsBlogIndex ==
    \E blog \in {[i \in 1..Len(returned) |->
                      fragmentAt(blogIndex, returned[i].slug)]} :
        \E home \in {[i \in 1..Len(returned) |->
                          fragmentAt(homePage, returned[i].slug)]} :
            /\ \A i \in 1..Len(returned) :
                   home[i] > 0 <=>
                       Cardinality({j \in 1..Len(returned) : blog[j] < blog[i]}) < 3
            /\ \A i, j \in 1..Len(returned) :
                   (home[i] > 0 /\ home[j] > 0) =>
                       (home[i] < home[j] <=> blog[i] < blog[j])

\* C23: within one run the fragments of the home page, in order, are for
\* the same posts as the first min(3, n) fragments of the blog index.
C23_HomeSortedAsBlogIndex ==
    bothPagesWritten => sameOrderAsBlogIndex

\* both pages were written from eight entries, some of unparsed date
C23_EightEntriesOnBothPages ==
    /\ bothPagesWritten
    /\ Len(returned) = 8
    /\ ~datesParse(returned)
    /\ Cardinality({i \in 1..8 : lists(homePage, returned[i].slug)}) = 3

\* the position after the </section> that closes the section open at depth
\* 0, scanning from position p; 0 when the section is never closed
RECURSIVE sectionEnd(_, _, _)
sectionEnd(page, p, depth) ==
    LET o == indexOf(page, "<section", p)
        c == indexOf(page, "</section>", p)
    IN  IF c = 0 THEN 0
        ELSE IF o # 0 /\ o < c THEN sectionEnd(page, o + 8, depth + 1)
        ELSE IF depth = 0 THEN c + 10
        ELSE sectionEnd(page, c + 10, depth - 1)

\* the Latest Posts section from its opening tag to the closing tag that
\* matches it, as a match of the pattern would describe it
matchingSection(page) ==
    LET open == latestPostsRegion(page)[1]
        body == indexOf(page, LatestPostsHeading, open + 9)
                    + Len(LatestPostsHeading)
        end  == IF open = 0 THEN 0 ELSE sectionEnd(page, open + 9, 0)
    IN  IF end = 0 THEN NoMatch
        ELSE [found  |-> TRUE,
              index  |-> open,
              end    |-> end,
              group1 |-> SubSeq(page, body, end - 11),
              group2 |-> ""]

\* C24: updateHomePage replaces exactly the first region that starts at a
\* <section> tag followed by the Latest Posts heading and ends at the
\* </section> tag that matches that opening tag, also when the section holds
\* a nested section; the text before and after that region stays.
C24_MatchingSectionReplaced ==
    (before.call = "updateHomePage" /\ matchingSection(before.homePage).found) =>
        homePage =
            replace(before.homePage, matchingSection(before.homePage),
                    "<section>\n            <h2>Latest Posts</h2>"
                        \o homeEntriesHtml(slice(blogEntries, 3))
                        \o "\n        </section>")

(***************************************************************************)
(* Claims about runs that an exception in an update ends                   *)
(***************************************************************************)

\* the names of the pages a finished processMarkdownFiles has written
pagesOfRun == {outputName(acceptedFiles[k]) : k \in 1..Len(acceptedFiles)}

\* the pages of this run are on disk
pagesWritten ==
    /\ written = pagesOfRun
    /\ written \subseteq DOMAIN outputDir

blogIndexFailed ==
    thrown \in {"readFileSync(blog.html)", "writeFileSync(blog.html)"}

homePageFailed ==
    thrown \in {"readFileSync(index.html)", "writeFileSync(index.html)"}

C22_RerunIsFullRemedy ==
    (pc = "done" /\ runs >= 2 /\ ~last.valid) =>
        \E build \in {buildOf(posts, dirOrder)} :
            /\ outputDir = build.outputDir
            /\ blogIndex = build.blogIndex
            /\ homePage = build.homePage

(***************************************************************************)
(* Claims about empty fields and about overwriting                         *)
(***************************************************************************)

\* the lines between the first two marker lines; none without two markers
linesBetweenMarkers(lines) ==
    LET markers == {i \in 1..Len(lines) : lines[i] = "---"}
    IN  IF Cardinality(markers) < 2 THEN <<>>
        ELSE SubSeq(lines, MinOf(markers) + 1,
                    MinOf(markers \ {MinOf(markers)}) - 1)

\* a front-matter line begins with the key
hasKey(fm, key) == \E i \in 1..Len(fm) : startsWith(fm[i], key, 1)

\* the trimmed remainder of the first front-matter line that begins with key
valueOf(fm, key) ==
    trim(from(fm[MinOf({i \in 1..Len(fm) : startsWith(fm[i], key, 1)})],
              Len(key) + 1))

\* the front matter has a title and a date line, and the line of this key
\* has nothing after the key
emptyValue(fm, key) ==
    /\ hasKey(fm, "title: ")
    /\ hasKey(fm, "date: ")
    /\ \E i \in 1..Len(fm) : fm[i] = key

\* the file has an entry with these fields and a page of its own name
entryAndPage(file, title, date) ==
    /\ \E k \in 1..Len(returned) :
          /\ returned[k].slug = slugOf(file)
          /\ returned[k].title = title
          /\ returned[k].date = date
    /\ outputName(file) \in written
    /\ outputName(file) \in DOMAIN outputDir

\* C30: a post whose front matter has the key title: or date: followed by a
\* space and an empty value is valid, not malformed: it gets an entry and an
\* output page, with an empty title or date; when no other file shares its
\* page, the heading or the date paragraph of the page is empty.
C30_EmptyValueIsValid ==
    processDone =>
        \A i \in 1..Len(files) :
            \E file \in {files[i]} :
                \E fm \in {linesBetweenMarkers(linesOf(posts[file]))} :
                    /\ emptyValue(fm, "title: ") =>
                          /\ entryAndPage(file, "", valueOf(fm, "date: "))
                          /\ Len(files) = 1 =>
                                includes(outputDir[outputName(file)],
                                         "<h1></h1>")
                    /\ emptyValue(fm, "date: ") =>
                          /\ entryAndPage(file, valueOf(fm, "title: "), "")
                          /\ Len(files) = 1 =>
                                includes(outputDir[outputName(file)],
                                         "<p class=\"date\"></p>")

\* a finished run over a post with an empty title and a post with an empty
\* date: both have an entry, and both are listed in the blog index
C30_EmptyTitleAndEmptyDate ==
    /\ pc = "done"
    /\ Len(files) = 2
    /\ posts[files[1]] = EmptyTitlePost
    /\ posts[files[2]] = EmptyDatePost
    /\ Len(returned) = 2
    /\ returned[1].title = ""
    /\ returned[2].date = ""
    /\ Cardinality(written) = 2
    /\ includes(blogIndex, "<h2></h2>")
    /\ includes(blogIndex, "<p class=\"date\"></p>")

\* C25: writing a post page overwrites unconditionally: after a complete
\* run, for every valid post the file <slug>.html of the output directory is
\* the page rendered from the current source of that post, whatever the file
\* held before the run.
C25_PageIsCurrentSource ==
    pc = "done" =>
        \A k \in 1..Len(acceptedFiles) :
            \E file \in {acceptedFiles[k]} :
                /\ outputName(file) \in DOMAIN outputDir
                /\ outputDir[outputName(file)] = htmlOutput(file, posts[file])

====
